---- MODULE Spec2Model ----
(***************************************************************************)
(* A model of the godwoken-kicker orchestration tool (tools/src/utils.rs   *)
(* and tools/src/main.rs): the repository synchronizer (prepare_package,   *)
(* run_pull_code), and the build dispatcher (build_package and its build   *)
(* strategies).                                                            *)
(*                                                                         *)
(* External programs (git, make, cargo, yarn, capsule, docker) and the     *)
(* file system are the environment.  Every invocation of `run` has three   *)
(* outcomes, as in the code: the program exits with status 0 ("ok"), it    *)
(* exits with another status ("fail", run returns Err), or it cannot be    *)
(* started ("nospawn", .status().expect("run command") panics).            *)
(***************************************************************************)
EXTENDS Naturals, Sequences, FiniteSets, TLC

VARIABLES
    kicker_config,  \* content of ./kicker-config.toml, or ConfigMissing
    disk,           \* packages/<name>: state of each working copy directory
    pc,             \* position of the process in the code
    idx,            \* index of the package the current loop is at
    runs,           \* how many times the entry point has been started
    envFail,        \* an external command or file operation failed for a reason
                    \* other than the state of the directory it was given
    ops,            \* operations of the current run_pull_code call, in order
    pre,            \* the packages directory as it was when the call began
    panic_msg,      \* message of the panic that ended the process, "" if none
    result,         \* what the last finished top-level function returned
    cmds,           \* external build commands run so far in this run, in order
    invoked,        \* build strategies invoked so far in this run, in order
    cwd,            \* current working directory of the process (absolute)
    dirs,           \* directories that exist outside packages/<name> (absolute)
    files,          \* files that exist: absolute path :> content
    started,        \* functions of main and prepare_workspace started in this run
    collects,       \* calls of collect_scripts_to_target made in this run
    todo,           \* scripts the running collect loop has yet to visit, in
                    \* the order its HashMap yields them
    printed         \* what main has printed in this run: <<function, result>>

vars == <<kicker_config, disk, pc, idx, runs, envFail, ops, pre, panic_msg,
          result, cmds, invoked, cwd, dirs, files, started, collects, todo, printed>>

-----------------------------------------------------------------------------
(* Bounds of the model. *)

MaxPackages == 2

MaxRuns == 2

-----------------------------------------------------------------------------
(* Data *)

\* Option<&str> of Url::fragment(): None is <<>>, Some(s) is <<s>>.
None == <<>>

Some(s) == <<s>>

\* Revisions the remote repositories have; a clone leaves HEAD at DefaultRev.
RemoteRevs == {"v1", "main"}

DefaultRev == "main"

\* Fragments of the repo_url values drawn: absent, empty, or a revision.
Fragments == {None, Some(""), Some("v1")}

KnownNames == {"godwoken", "godwoken-scripts", "godwoken-polyjuice",
               "godwoken-polyman", "godwoken-web3", "clerkb"}

\* "demo" is a package name build_package has no arm for.
PackageNames == KnownNames \cup {"demo"}

\* A directory: absent; present without version-control metadata (git = FALSE);
\* or a repository checked out at rev.  junk: it holds content that no git
\* command put there (files of a damaged or half-built tree).
Absent == [exists |-> FALSE, git |-> FALSE, rev |-> "", junk |-> FALSE]

EmptyDir == [exists |-> TRUE, git |-> FALSE, rev |-> "", junk |-> FALSE]

Corrupt == [exists |-> TRUE, git |-> FALSE, rev |-> "", junk |-> TRUE]

Repo(r, j) == [exists |-> TRUE, git |-> TRUE, rev |-> r, junk |-> j]

InitDirs == {Absent, Corrupt, Repo("v1", FALSE), Repo("main", TRUE)}

ConfigMissing == [readable |-> FALSE, packages_info |-> <<>>,
                  images_info |-> 0, build_godwoken_over_docker |-> FALSE]

PackageInfo(n, f, b) == [repo_name |-> n, fragment |-> f, build_mode |-> b]

SeqsUpTo(S, n) == UNION {[1..k -> S] : k \in 0..n}

Outcomes == {"ok", "fail", "nospawn"}

-----------------------------------------------------------------------------
(* Helpers of utils.rs *)

\* make_path: the parent with every path pushed onto it.
make_path(parent_dir_path, paths) == parent_dir_path \o paths

\* The directory the tool is started in.
ProjectDir == <<"/", "kicker">>

\* A path as the operating system resolves it: "." components are dropped.
Norm(path) == SelectSeq(path, LAMBDA c : c # ".")

\* A relative path resolved against the current working directory.
Abs(path) == cwd \o Norm(path)

IsUnder(path, dir) ==
    /\ Len(path) > Len(dir)
    /\ SubSeq(path, 1, Len(dir)) = dir

\* What fs::remove_dir_all(dir) leaves of the files f.
remove_files_under(f, dir) ==
    [q \in {q \in DOMAIN f : ~IsUnder(q, dir)} |-> f[q]]

\* The exit of one `run` given what the environment does (e) and whether the
\* command can succeed on what it was given (able).
run(e, able) == IF e = "nospawn" THEN "panic"
                ELSE IF e = "ok" /\ able THEN "Ok" ELSE "Err"

\* (mutant) the checkout command is left out: fetch and submodule update only.
run_git_checkout_no_switch(d, commit, e) ==
    LET fetch == run(e[1], d.git)
        submodule == run(e[3], TRUE)
    IN  IF fetch # "Ok" THEN <<fetch, d>> ELSE <<submodule, d>>

\* run_git_checkout on directory d: fetch, checkout commit, submodule update,
\* each `?`-chained.  e is the environment's outcome for the three commands.
\* The result is <<"Ok" | "Err" | "panic", directory after>>.
run_git_checkout(d, commit, e) ==
    LET fetch == run(e[1], d.git)
        checkout == run(e[2], commit \in RemoteRevs)
        submodule == run(e[3], TRUE)
        at == [d EXCEPT !.rev = commit]
    IN  IF fetch # "Ok" THEN <<fetch, d>>
        ELSE IF checkout # "Ok" THEN <<checkout, d>>
        ELSE <<submodule, at>>

\* run_git_clone into directory d: git refuses a directory that is not empty.
run_git_clone(d, e) ==
    LET clone == run(e, d.exists /\ ~d.git /\ ~d.junk)
    IN  IF clone = "Ok" THEN <<clone, Repo(DefaultRev, FALSE)>> ELSE <<clone, d>>

\* (mutant) the directory is kept.
remove_dir_all_keep(d) == d

\* fs::remove_dir_all
remove_dir_all(d) == Absent

\* fs::create_dir_all
create_dir_all(d) == IF d.exists THEN d ELSE EmptyDir

\* Whether result r of run_git_checkout on d is a failure of the environment's
\* doing: git could not be started, or failed on a repository that has commit.
CheckoutEnvFail(d, commit, r) ==
    \/ r = "panic"
    \/ r = "Err" /\ d.git /\ commit \in RemoteRevs

-----------------------------------------------------------------------------
(* prepare_package and run_pull_code *)

cur == kicker_config.packages_info[idx]

\* (mutant) every configured package is taken, whatever its build_mode.
selected_always(p) == TRUE

\* `if p.build_mode` (lines 418 and 445): whether the loops of build_package
\* and prepare_package do anything for package p.
selected(p) == p.build_mode

\* (mutant) the target directory is created before the fragment is looked at.
pull_entry_create_first(fragment, exists) ==
    IF ~exists THEN "create_dir_all"
    ELSE IF fragment = None THEN "aborted"
    ELSE "checkout_first"

\* run_pull_code, lines 453-459: where the call goes first.
pull_entry(fragment, exists) ==
    IF fragment = None THEN "aborted"
    ELSE IF exists THEN "checkout_first"
    ELSE "create_dir_all"

\* (mutant) a working copy is rebuilt whatever its checkout returned.
after_checkout_first_always_reinit(res) ==
    IF res = "panic" THEN "aborted" ELSE "remove_dir_all"

\* run_pull_code, lines 460-465: where the call goes after the checkout of an
\* existing directory.
after_checkout_first(res) ==
    IF res = "panic" THEN "aborted"
    ELSE IF res = "Ok" THEN "pulled"
    ELSE "remove_dir_all"

\* (mutant) a failed checkout of the fresh clone starts the recovery again.
after_checkout_second_retry(res) ==
    IF res = "panic" THEN "aborted"
    ELSE IF res = "Ok" THEN "pulled"
    ELSE "remove_dir_all"

\* run_pull_code, line 470: where the call goes after the checkout of the
\* fresh clone.
after_checkout_second(res) == IF res = "Ok" THEN "pulled" ELSE "aborted"

Panic(msg) == /\ pc' = "aborted"
              /\ panic_msg' = msg

\* prepare_package, lines 439-443: read_config()?
prepare_package_read ==
    /\ pc = "prepare_package"
    /\ IF kicker_config.readable
         THEN /\ pc' = "prepare_loop"
              /\ idx' = 1
              /\ UNCHANGED result
         ELSE /\ pc' = "prepare_package_ret"
              /\ result' = "Err"
              /\ UNCHANGED idx
    /\ UNCHANGED <<kicker_config, disk, runs, envFail, ops, pre, panic_msg,
                   cmds, invoked>>
    /\ UNCHANGED <<cwd, dirs, files, started, collects, todo, printed>>

\* prepare_package, lines 444-449: the loop head and the final Ok(()).
prepare_package_loop ==
    /\ pc = "prepare_loop"
    /\ IF idx > Len(kicker_config.packages_info)
         THEN /\ pc' = "prepare_package_ret"
              /\ result' = "Ok"
              /\ UNCHANGED idx
         ELSE IF selected(cur)
                THEN /\ pc' = "run_pull_code"
                     /\ UNCHANGED <<idx, result>>
                ELSE /\ idx' = idx + 1
                     /\ UNCHANGED <<pc, result>>
    /\ UNCHANGED <<kicker_config, disk, runs, envFail, ops, pre, panic_msg,
                   cmds, invoked>>
    /\ UNCHANGED <<cwd, dirs, files, started, collects, todo, printed>>

\* run_pull_code, lines 453-459: the fragment, then target_dir.exists().
run_pull_code_begin ==
    /\ pc = "run_pull_code"
    /\ ops' = <<>>
    /\ pre' = disk
    /\ pc' = pull_entry(cur.fragment, disk[cur.repo_name].exists)
    /\ panic_msg' = IF pc' = "aborted" THEN "invalid branch, tag, or commit"
                    ELSE panic_msg
    /\ UNCHANGED <<kicker_config, disk, idx, runs, envFail, result, cmds, invoked>>
    /\ UNCHANGED <<cwd, dirs, files, started, collects, todo, printed>>

\* run_pull_code, lines 460-464: the checkout of an existing directory.
run_pull_code_checkout_first ==
    /\ pc = "checkout_first"
    /\ \E e \in [1..3 -> Outcomes] :
         LET commit == cur.fragment[1]
             d == disk[cur.repo_name]
             r == run_git_checkout(d, commit, e)
         IN  /\ ops' = Append(ops, [op |-> "checkout", res |-> r[1]])
             /\ disk' = [disk EXCEPT ![cur.repo_name] = r[2]]
             /\ envFail' = (envFail \/ CheckoutEnvFail(d, commit, r[1]))
             /\ pc' = after_checkout_first(r[1])
             /\ panic_msg' = IF pc' = "aborted" THEN "run command" ELSE panic_msg
    /\ UNCHANGED <<kicker_config, idx, runs, pre, result, cmds, invoked>>
    /\ UNCHANGED <<cwd, dirs, files, started, collects, todo, printed>>

\* run_pull_code, line 465: fs::remove_dir_all(&target_dir).expect(..)
run_pull_code_remove ==
    /\ pc = "remove_dir_all"
    /\ \E ok \in BOOLEAN :
         /\ ops' = Append(ops, [op |-> "remove_dir_all",
                                res |-> IF ok THEN "Ok" ELSE "panic"])
         /\ envFail' = (envFail \/ ~ok)
         /\ IF ok
              THEN /\ disk' = [disk EXCEPT ![cur.repo_name] = remove_dir_all(@)]
                   /\ files' = remove_files_under(
                                   files, Abs(make_path(<<"packages">>,
                                                        <<cur.repo_name>>)))
                   /\ pc' = "create_dir_all"
                   /\ UNCHANGED panic_msg
              ELSE /\ Panic("clean repo dir")
                   /\ UNCHANGED <<disk, files>>
    /\ UNCHANGED <<kicker_config, idx, runs, pre, result, cmds, invoked>>
    /\ UNCHANGED <<cwd, dirs, started, collects, todo, printed>>

\* run_pull_code, line 467: fs::create_dir_all(&target_dir).expect(..)
run_pull_code_create ==
    /\ pc = "create_dir_all"
    /\ \E ok \in BOOLEAN :
         /\ ops' = Append(ops, [op |-> "create_dir_all",
                                res |-> IF ok THEN "Ok" ELSE "panic"])
         /\ envFail' = (envFail \/ ~ok)
         /\ IF ok
              THEN /\ disk' = [disk EXCEPT ![cur.repo_name] = create_dir_all(@)]
                   /\ pc' = "clone"
                   /\ UNCHANGED panic_msg
              ELSE /\ Panic("create repo dir")
                   /\ UNCHANGED disk
    /\ UNCHANGED <<kicker_config, idx, runs, pre, result, cmds, invoked>>
    /\ UNCHANGED <<cwd, dirs, files, started, collects, todo, printed>>

\* run_pull_code, lines 468-469: run_git_clone(..).expect("run git clone")
run_pull_code_clone ==
    /\ pc = "clone"
    /\ \E e \in Outcomes :
         LET d == disk[cur.repo_name]
             r == run_git_clone(d, e)
         IN  /\ ops' = Append(ops, [op |-> "clone", res |-> r[1]])
             /\ disk' = [disk EXCEPT ![cur.repo_name] = r[2]]
             /\ envFail' = (envFail \/ e # "ok")
             /\ IF r[1] = "Ok"
                  THEN /\ pc' = "checkout_second"
                       /\ UNCHANGED panic_msg
                  ELSE Panic(IF r[1] = "panic" THEN "run command"
                             ELSE "run git clone")
    /\ UNCHANGED <<kicker_config, idx, runs, pre, result, cmds, invoked>>
    /\ UNCHANGED <<cwd, dirs, files, started, collects, todo, printed>>

\* run_pull_code, line 470: run_git_checkout(..).expect("run git checkout")
run_pull_code_checkout_second ==
    /\ pc = "checkout_second"
    /\ \E e \in [1..3 -> Outcomes] :
         LET commit == cur.fragment[1]
             d == disk[cur.repo_name]
             r == run_git_checkout(d, commit, e)
         IN  /\ ops' = Append(ops, [op |-> "checkout", res |-> r[1]])
             /\ disk' = [disk EXCEPT ![cur.repo_name] = r[2]]
             /\ envFail' = (envFail \/ CheckoutEnvFail(d, commit, r[1]))
             /\ pc' = after_checkout_second(r[1])
             /\ panic_msg' = IF pc' # "aborted" THEN panic_msg
                             ELSE IF r[1] = "panic" THEN "run command"
                             ELSE "run git checkout"
    /\ UNCHANGED <<kicker_config, idx, runs, pre, result, cmds, invoked>>
    /\ UNCHANGED <<cwd, dirs, files, started, collects, todo, printed>>

\* run_pull_code has returned: prepare_package goes on with the next package.
run_pull_code_return ==
    /\ pc = "pulled"
    /\ pc' = "prepare_loop"
    /\ idx' = idx + 1
    /\ UNCHANGED <<kicker_config, disk, runs, envFail, ops, pre, panic_msg,
                   result, cmds, invoked>>
    /\ UNCHANGED <<cwd, dirs, files, started, collects, todo, printed>>

-----------------------------------------------------------------------------
(* The synchronizer on its own: prepare_package called MaxRuns times in     *)
(* succession on the same configuration and the directories it left.       *)

SyncNames == {"godwoken", "clerkb"}

SyncConfigs ==
    {ConfigMissing} \cup
    { [readable |-> TRUE, packages_info |-> ps, images_info |-> 3,
       build_godwoken_over_docker |-> FALSE] :
      ps \in SeqsUpTo({PackageInfo(n, f, b) :
                         n \in SyncNames, f \in Fragments, b \in BOOLEAN},
                      MaxPackages) }

SyncInit ==
    /\ kicker_config \in SyncConfigs
    /\ disk \in {d \in [PackageNames -> InitDirs] :
                   \A n \in PackageNames \ SyncNames : d[n] = Absent}
    /\ pc = "prepare_package"
    /\ idx = 1
    /\ runs = 1
    /\ envFail = FALSE
    /\ ops = <<>>
    /\ pre = disk
    /\ panic_msg = ""
    /\ result = ""
    /\ cmds = <<>>
    /\ invoked = <<>>
    /\ cwd = ProjectDir
    /\ dirs = {}
    /\ files = <<>>
    /\ started = <<>>
    /\ collects = <<>>
    /\ todo = <<>>
    /\ printed = <<>>

\* prepare_package has returned and is called again, on what it left on disk.
\* (The directories a call that panicked leaves behind, an absent, an emptied
\* or a half-prepared one, are among the initial ones.)
sync_again ==
    /\ pc = "prepare_package_ret"
    /\ runs < MaxRuns
    /\ runs' = runs + 1
    /\ pc' = "prepare_package"
    /\ idx' = 1
    /\ ops' = <<>>
    /\ pre' = disk
    /\ panic_msg' = ""
    /\ result' = ""
    /\ UNCHANGED <<kicker_config, disk, envFail, cmds, invoked>>
    /\ UNCHANGED <<cwd, dirs, files, started, collects, todo, printed>>

SyncNext ==
    \/ prepare_package_read
    \/ prepare_package_loop
    \/ run_pull_code_begin
    \/ run_pull_code_checkout_first
    \/ run_pull_code_remove
    \/ run_pull_code_create
    \/ run_pull_code_clone
    \/ run_pull_code_checkout_second
    \/ run_pull_code_return
    \/ sync_again

SyncSpec == SyncInit /\ [][SyncNext]_vars

-----------------------------------------------------------------------------
(* build_package and the build strategies *)

\* Path::new("./packages/") and "./packages/".to_owned() + repo_name.
packages_root_dir == <<".", "packages">>

package_repo_dir(repo_name) == <<".", "packages", repo_name>>

\* Whether the directory packages/<name> that path names exists.
dir_exists(path) == disk[path[Len(path)]].exists

\* (mutant) the match has no default arm: any other name is built as godwoken.
dispatch_no_default(repo_name) ==
    IF repo_name = "godwoken-scripts"
      THEN [fn |-> "build_godwoken_scripts", repo_dir |-> packages_root_dir]
    ELSE IF repo_name = "godwoken-polyjuice"
      THEN [fn |-> "build_godwoken_polyjuice", repo_dir |-> packages_root_dir]
    ELSE IF repo_name \in {"godwoken-polyman", "godwoken-web3"}
      THEN [fn |-> "build_node_module_by_copy",
            repo_dir |-> package_repo_dir(repo_name)]
    ELSE IF repo_name = "clerkb"
      THEN [fn |-> "build_clerkb", repo_dir |-> packages_root_dir]
    ELSE [fn |-> "build_godwoken", repo_dir |-> package_repo_dir(repo_name)]

\* build_package, lines 419-433: the match on the package name.  fn is the
\* function called ("" for the default arm), repo_dir its first argument.
dispatch(repo_name) ==
    CASE repo_name = "godwoken" ->
           [fn |-> "build_godwoken", repo_dir |-> package_repo_dir(repo_name)]
      [] repo_name = "godwoken-scripts" ->
           [fn |-> "build_godwoken_scripts", repo_dir |-> packages_root_dir]
      [] repo_name = "godwoken-polyjuice" ->
           [fn |-> "build_godwoken_polyjuice", repo_dir |-> packages_root_dir]
      [] repo_name = "godwoken-polyman" ->
           [fn |-> "build_node_module_by_copy",
            repo_dir |-> package_repo_dir(repo_name)]
      [] repo_name = "godwoken-web3" ->
           [fn |-> "build_node_module_by_copy",
            repo_dir |-> package_repo_dir(repo_name)]
      [] repo_name = "clerkb" ->
           [fn |-> "build_clerkb", repo_dir |-> packages_root_dir]
      [] OTHER -> [fn |-> "", repo_dir |-> <<>>]

\* The call the dispatcher made last: the strategy now running.
call == invoked[Len(invoked)]

\* One external command as the process ran it.  dir is the directory the
\* command works in; "<dir>" in args stands for its display string.
\* at is the working directory the command was started in.
CmdAt(bin, args, dir, at, res) ==
    [idx |-> idx, bin |-> bin, args |-> args, dir |-> dir, at |-> at,
     res |-> res]

Cmd(bin, args, dir, res) == CmdAt(bin, args, dir, cwd, res)

\* (mutant) the Result is dropped instead of being expect()ed.
expect_ignored(res, next) == IF res = "panic" THEN "aborted" ELSE next

\* Result::expect on the result of a command: go on, or panic.
expect(res, next) == IF res = "Ok" THEN next ELSE "aborted"

\* The message of the panic: run's own when the command could not be started.
expect_msg(res, msg) == IF res = "panic" THEN "run command" ELSE msg

\* One command run by `run` and expect()ed with msg: the step of a strategy.
run_expect(bin, args, dir, next, msg) ==
    \E e \in Outcomes :
      LET res == run(e, TRUE)
      IN  /\ cmds' = Append(cmds, Cmd(bin, args, dir, res))
          /\ envFail' = (envFail \/ res # "Ok")
          /\ pc' = expect(res, next)
          /\ panic_msg' = IF pc' = "aborted" THEN expect_msg(res, msg)
                          ELSE panic_msg
          /\ UNCHANGED cwd

\* (mutant) the working directory is not set back.
restore_dir_forgotten(working_dir, target_dir) == target_dir

\* run_in_dir, line 506: env::set_current_dir(&working_dir): the directory
\* the process is in when run_in_dir returns.
restore_dir(working_dir, target_dir) == working_dir

\* One command run by run_in_dir (lines 498-508) and expect()ed with msg:
\* set_current_dir(target_dir).expect("set target dir") comes first, the
\* command runs in target_dir, and the working directory is set back unless
\* run itself panicked.
run_in_dir_expect(bin, args, target_dir, next, msg) ==
    IF dir_exists(target_dir)
      THEN \E e \in Outcomes :
             LET res == run(e, TRUE)
                 working_dir == cwd
             IN  /\ cmds' = Append(cmds, CmdAt(bin, args, target_dir,
                                               Abs(target_dir), res))
                 /\ envFail' = (envFail \/ res # "Ok")
                 /\ pc' = expect(res, next)
                 /\ panic_msg' = IF pc' = "aborted" THEN expect_msg(res, msg)
                                 ELSE panic_msg
                 /\ cwd' = IF res = "panic" THEN Abs(target_dir)
                           ELSE restore_dir(working_dir, Abs(target_dir))
      ELSE /\ Panic("set target dir")
           /\ envFail' = TRUE
           /\ UNCHANGED <<cmds, cwd>>

\* build_package, line 412: read_config()?
build_package_read ==
    /\ pc = "build_package"
    /\ IF kicker_config.readable
         THEN /\ pc' = "build_loop"
              /\ idx' = 1
              /\ UNCHANGED result
         ELSE /\ pc' = "build_package_ret"
              /\ result' = "Err"
              /\ UNCHANGED idx
    /\ UNCHANGED <<kicker_config, disk, runs, envFail, ops, pre, panic_msg,
                   cmds, invoked>>
    /\ UNCHANGED <<cwd, dirs, files, started, collects, todo, printed>>

\* build_package, lines 413-436: the loop head, the match, the final Ok(()).
build_package_loop ==
    /\ pc = "build_loop"
    /\ IF idx > Len(kicker_config.packages_info)
         THEN /\ pc' = "build_package_ret"
              /\ result' = "Ok"
              /\ UNCHANGED <<idx, invoked>>
         ELSE IF selected(cur) /\ dispatch(cur.repo_name).fn # ""
                THEN /\ pc' = dispatch(cur.repo_name).fn
                     /\ invoked' = Append(invoked,
                            [idx |-> idx,
                             fn |-> dispatch(cur.repo_name).fn,
                             repo_dir |-> dispatch(cur.repo_name).repo_dir,
                             repo_name |-> cur.repo_name])
                     /\ UNCHANGED <<idx, result>>
                ELSE /\ idx' = idx + 1
                     /\ UNCHANGED <<pc, result, invoked>>
    /\ UNCHANGED <<kicker_config, disk, runs, envFail, ops, pre, panic_msg, cmds>>
    /\ UNCHANGED <<cwd, dirs, files, started, collects, todo, printed>>

\* The strategy has returned: build_package goes on with the next package.
build_strategy_return ==
    /\ pc = "built"
    /\ pc' = "build_loop"
    /\ idx' = idx + 1
    /\ UNCHANGED <<kicker_config, disk, runs, envFail, ops, pre, panic_msg,
                   result, cmds, invoked>>
    /\ UNCHANGED <<cwd, dirs, files, started, collects, todo, printed>>

\* build_godwoken, lines 125-134: read_config().expect("msg"), then the flag.
godwoken_branch(readable, over_docker) ==
    IF ~readable THEN "aborted"
    ELSE IF over_docker THEN "godwoken_cargo"
    ELSE "aborted"

build_godwoken_begin ==
    /\ pc = "build_godwoken"
    /\ pc' = godwoken_branch(kicker_config.readable,
                             kicker_config.build_godwoken_over_docker)
    /\ panic_msg' = IF pc' # "aborted" THEN panic_msg
                    ELSE IF ~kicker_config.readable THEN "msg"
                    ELSE "build godwoken via docker not impl yet!"
    /\ UNCHANGED <<kicker_config, disk, idx, runs, envFail, ops, pre, result,
                   cmds, invoked>>
    /\ UNCHANGED <<cwd, dirs, files, started, collects, todo, printed>>

\* The binaries provide_godwoken_bin reads (lines 381-382).
godwoken_bin == <<"packages", "godwoken", "target", "debug", "godwoken">>

gw_tools_bin == <<"packages", "godwoken", "target", "debug", "gw-tools">>

\* What a successful `cargo build` of the godwoken working copy at revision
\* rev leaves in target/debug.  (What the other build commands write is not
\* read by any function of the tool at the place they write it.)
cargo_build(rev) ==
    (ProjectDir \o godwoken_bin :> <<"godwoken", rev>>)
    @@ (ProjectDir \o gw_tools_bin :> <<"gw-tools", rev>>)

\* build_godwoken, lines 127-129: cargo build in repo_dir.
build_godwoken_cargo ==
    /\ pc = "godwoken_cargo"
    /\ run_in_dir_expect("cargo", <<"build">>, call.repo_dir, "built",
                         "failed to build godwoken on local.")
    /\ files' = IF pc' = "built"
                  THEN cargo_build(disk["godwoken"].rev) @@ files
                  ELSE files
    /\ UNCHANGED <<kicker_config, disk, idx, runs, ops, pre, result, invoked>>
    /\ UNCHANGED <<dirs, started, collects, todo, printed>>

\* (mutant) the packaging step is left out when make succeeded.
after_scripts_make_skip_capsule(res) == IF res = "Ok" THEN "built" ELSE "aborted"

\* build_godwoken_scripts, line 141: .expect("run make"), then capsule.
after_scripts_make(res) == expect(res, "scripts_capsule")

\* build_godwoken_scripts, lines 138-141: make -C <repo_dir>/c
build_godwoken_scripts_make ==
    /\ pc = "build_godwoken_scripts"
    /\ \E e \in Outcomes :
         LET res == run(e, TRUE)
             repo_dir == make_path(call.repo_dir, <<call.repo_name>>)
             target_dir == repo_dir \o <<"c">>
         IN  /\ cmds' = Append(cmds, Cmd("make", <<"-C", "<dir>">>, target_dir, res))
             /\ envFail' = (envFail \/ res # "Ok")
             /\ pc' = after_scripts_make(res)
             /\ panic_msg' = IF pc' = "aborted" THEN expect_msg(res, "run make")
                             ELSE panic_msg
    /\ UNCHANGED <<kicker_config, disk, idx, runs, ops, pre, result, invoked>>
    /\ UNCHANGED <<cwd, dirs, files, started, collects, todo, printed>>

\* build_godwoken_scripts, lines 142-147: capsule build in repo_dir.
build_godwoken_scripts_capsule ==
    /\ pc = "scripts_capsule"
    /\ run_in_dir_expect("capsule", <<"build", "--release", "--debug-output">>,
                         make_path(call.repo_dir, <<call.repo_name>>), "built",
                         "run capsule build")
    /\ UNCHANGED <<kicker_config, disk, idx, runs, ops, pre, result, invoked>>
    /\ UNCHANGED <<dirs, files, started, collects, todo, printed>>

\* build_godwoken_polyjuice, lines 151-152: make -C <target_dir> all-via-docker
build_godwoken_polyjuice_make ==
    /\ pc = "build_godwoken_polyjuice"
    /\ run_expect("make", <<"-C", "<dir>", "all-via-docker">>,
                  make_path(call.repo_dir, <<call.repo_name>>), "built",
                  "run make")
    /\ UNCHANGED <<kicker_config, disk, idx, runs, ops, pre, result, invoked>>
    /\ UNCHANGED <<dirs, files, started, collects, todo, printed>>

\* build_clerkb, lines 156-158: yarn --cwd <target_dir>
build_clerkb_yarn ==
    /\ pc = "build_clerkb"
    /\ run_expect("yarn", <<"--cwd", "<dir>">>,
                  make_path(call.repo_dir, <<call.repo_name>>), "clerkb_make",
                  "run yarn")
    /\ UNCHANGED <<kicker_config, disk, idx, runs, ops, pre, result, invoked>>
    /\ UNCHANGED <<dirs, files, started, collects, todo, printed>>

\* build_clerkb, line 159: make -C <target_dir> all-via-docker
build_clerkb_make ==
    /\ pc = "clerkb_make"
    /\ run_expect("make", <<"-C", "<dir>", "all-via-docker">>,
                  make_path(call.repo_dir, <<call.repo_name>>), "built",
                  "run make")
    /\ UNCHANGED <<kicker_config, disk, idx, runs, ops, pre, result, invoked>>
    /\ UNCHANGED <<dirs, files, started, collects, todo, printed>>

\* (mutant) a failed verification is expect()ed like any other command.
after_verify_fatal(res) == IF res = "Ok" THEN "built" ELSE "aborted"

\* build_node_module_by_copy, lines 164-167: if let Err(_) = run(..) { copy }
after_verify(res) ==
    IF res = "panic" THEN "aborted"
    ELSE IF res = "Ok" THEN "built"
    ELSE "copy_node_module_from_docker"

\* build_node_module_by_copy, lines 163-165: yarn --cwd <target_dir> check
\* --verify-tree
build_node_module_by_copy_verify ==
    /\ pc = "build_node_module_by_copy"
    /\ \E e \in Outcomes :
         LET res == run(e, TRUE)
             target_dir == make_path(call.repo_dir, <<call.repo_name>>)
         IN  /\ cmds' = Append(cmds, Cmd("yarn", <<"--cwd", "<dir>", "check",
                                                   "--verify-tree">>,
                                         target_dir, res))
             /\ envFail' = (envFail \/ res # "Ok")
             /\ pc' = after_verify(res)
             /\ panic_msg' = IF pc' = "aborted" THEN "run command" ELSE panic_msg
    /\ UNCHANGED <<kicker_config, disk, idx, runs, ops, pre, result, invoked>>
    /\ UNCHANGED <<cwd, dirs, files, started, collects, todo, printed>>

\* copy_node_module_from_docker, lines 171-176: read_config()?, then
\* config.images_info[2]; line 166 expect()s the function's result.
copy_node_module_from_docker_image ==
    /\ pc = "copy_node_module_from_docker"
    /\ pc' = IF kicker_config.readable /\ kicker_config.images_info >= 3
               THEN "docker_run" ELSE "aborted"
    /\ panic_msg' = IF pc' # "aborted" THEN panic_msg
                    ELSE IF ~kicker_config.readable THEN "copy node_module_failed"
                    ELSE "index out of bounds"
    /\ UNCHANGED <<kicker_config, disk, idx, runs, envFail, ops, pre, result,
                   cmds, invoked>>
    /\ UNCHANGED <<cwd, dirs, files, started, collects, todo, printed>>

\* copy_node_module_from_docker, lines 177-182: run_one_line_cmd(docker run ..
\* -v <current_dir>/packages/<repo_name>:/app ..); line 166 expect()s it.
copy_node_module_from_docker_run ==
    /\ pc = "docker_run"
    /\ \E e \in Outcomes :
         LET res == run(e, TRUE)
         IN  /\ cmds' = Append(cmds,
                   Cmd("bash", <<"-c", "docker run --rm -v <dir>:/app <image> cp -r">>,
                       <<"packages", call.repo_name>>, res))
             /\ envFail' = (envFail \/ res # "Ok")
             /\ pc' = expect(res, "built")
             /\ panic_msg' = IF pc' # "aborted" THEN panic_msg
                             ELSE IF res = "panic" THEN "failed to run docker command"
                             ELSE "copy node_module_failed"
    /\ UNCHANGED <<kicker_config, disk, idx, runs, ops, pre, result, invoked>>
    /\ UNCHANGED <<cwd, dirs, files, started, collects, todo, printed>>

-----------------------------------------------------------------------------
(* The build dispatcher on its own: build_package called once.              *)

\* Number of entries of images_info: the default three, or one fewer.
ImageCounts == {2, 3}

BuildConfigs ==
    {ConfigMissing} \cup
    { [readable |-> TRUE, packages_info |-> ps, images_info |-> n,
       build_godwoken_over_docker |-> o] :
      ps \in SeqsUpTo({PackageInfo(n, Some("v1"), b) :
                         n \in PackageNames, b \in BOOLEAN},
                      MaxPackages),
      n \in ImageCounts, o \in BOOLEAN }

\* The working copies are in place, but for those a build changes into.
BuildDisks ==
    {d \in [PackageNames -> {Absent, Repo("v1", FALSE)}] :
       \A n \in PackageNames \ {"godwoken", "godwoken-scripts"} : d[n].exists}

BuildInit ==
    /\ kicker_config \in BuildConfigs
    /\ disk \in BuildDisks
    /\ pc = "build_package"
    /\ idx = 1
    /\ runs = 1
    /\ envFail = FALSE
    /\ ops = <<>>
    /\ pre = disk
    /\ panic_msg = ""
    /\ result = ""
    /\ cmds = <<>>
    /\ invoked = <<>>
    /\ cwd = ProjectDir
    /\ dirs = {}
    /\ files = <<>>
    /\ started = <<>>
    /\ collects = <<>>
    /\ todo = <<>>
    /\ printed = <<>>

BuildNext ==
    \/ build_package_read
    \/ build_package_loop
    \/ build_strategy_return
    \/ build_godwoken_begin
    \/ build_godwoken_cargo
    \/ build_godwoken_scripts_make
    \/ build_godwoken_scripts_capsule
    \/ build_godwoken_polyjuice_make
    \/ build_clerkb_yarn
    \/ build_clerkb_make
    \/ build_node_module_by_copy_verify
    \/ copy_node_module_from_docker_image
    \/ copy_node_module_from_docker_run

BuildSpec == BuildInit /\ [][BuildNext]_vars

-----------------------------------------------------------------------------
(* Properties of the synchronizer (checked under SyncSpec) *)

\* The process is inside a run_pull_code call, or the call has just ended.
InCall == pc \in {"checkout_first", "remove_dir_all", "create_dir_all", "clone",
                  "checkout_second", "pulled", "aborted"}

OpNames == [i \in 1..Len(ops) |-> ops[i].op]

Count(name) == Cardinality({i \in 1..Len(ops) : ops[i].op = name})

IsPrefix(s, t) == Len(s) <= Len(t) /\ \A i \in 1..Len(s) : s[i] = t[i]

Reconstruction == <<"checkout", "remove_dir_all", "create_dir_all", "clone",
                    "checkout">>

Pinned == cur.fragment[1]

\* The first checkout of the call was made on an existing directory and
\* returned an error.
FirstCheckoutFailed ==
    /\ InCall
    /\ Len(ops) >= 1
    /\ ops[1] = [op |-> "checkout", res |-> "Err"]

\* C1: for a package whose repo_url fragment names a revision of the remote,
\* from any initial directory (absent, valid checkout, corrupt), as long as no
\* external command or file operation has failed for a reason of its own, no
\* run_pull_code call panics, and whenever one returns, in the first
\* prepare_package pass or in a later one, the working copy is a repository
\* checked out at the pinned revision.
C1_SyncTwiceAtPinned ==
    (/\ InCall
     /\ ~envFail
     /\ cur.fragment # None
     /\ Pinned \in RemoteRevs)
    => /\ pc # "aborted"
       /\ pc = "pulled" => /\ disk[cur.repo_name].git
                           /\ disk[cur.repo_name].rev = Pinned

\* The second call of run_pull_code for the only package of the configuration
\* has returned, after a single successful checkout, at the pinned revision.
C1_Witness ==
    /\ runs = 2
    /\ pc = "pulled"
    /\ ~envFail
    /\ Len(kicker_config.packages_info) = 1
    /\ cur.fragment = Some("v1")
    /\ ops = <<[op |-> "checkout", res |-> "Ok"]>>
    /\ disk[cur.repo_name].rev = "v1"

C3_InvalidRevisionFirst ==
    (InCall /\ cur.fragment = None)
    => /\ pc = "aborted"
       /\ panic_msg = "invalid branch, tag, or commit"
       /\ ops = <<>>
       /\ disk = pre

\* The call for a package without fragment has ended, over an existing
\* directory.
C3_Witness ==
    /\ pc = "aborted"
    /\ cur.fragment = None
    /\ disk[cur.repo_name].exists

\* C4: in one run_pull_code call the clone runs at most once and the checkout
\* at most twice, and a clone, or a checkout after it, that does not succeed is
\* the last operation of the call, which has panicked.
C4_SingleRecovery ==
    InCall
    => /\ Count("clone") <= 1
       /\ Count("checkout") <= 2
       /\ Count("remove_dir_all") <= 1
       /\ \A i \in 1..Len(ops) :
            (/\ ops[i].res # "Ok"
             /\ \/ ops[i].op = "clone"
                \/ ops[i].op = "checkout" /\ i > 1)
            => /\ i = Len(ops)
               /\ pc = "aborted"
               /\ panic_msg \in {"run git clone", "run git checkout", "run command"}

\* The checkout after a successful clone failed and the call has panicked.
C4_Witness ==
    /\ pc = "aborted"
    /\ Len(ops) = 5
    /\ ops[4] = [op |-> "clone", res |-> "Ok"]
    /\ ops[5] = [op |-> "checkout", res |-> "Err"]

\* C5: when the checkout of an existing directory succeeds, the call has
\* returned with that checkout as its only operation: nothing was removed,
\* created or cloned, and the packages directory is as it was but for the
\* revision the working copy is checked out at.
C5_ValidCheckoutReturns ==
    (/\ InCall
     /\ Len(ops) >= 1
     /\ ops[1] = [op |-> "checkout", res |-> "Ok"])
    => /\ pc = "pulled"
       /\ Len(ops) = 1
       /\ disk = [pre EXCEPT ![cur.repo_name].rev = Pinned]

\* A checkout that moved a repository holding untracked content from another
\* revision to the pinned one.
C5_Witness ==
    /\ pc = "pulled"
    /\ ops = <<[op |-> "checkout", res |-> "Ok"]>>
    /\ pre[cur.repo_name] = Repo("main", TRUE)
    /\ disk[cur.repo_name] = Repo("v1", TRUE)

-----------------------------------------------------------------------------
(* Properties of the build dispatcher (checked under BuildSpec) *)

StrategyPcs == {"build_godwoken", "godwoken_cargo", "build_godwoken_scripts",
                "scripts_capsule", "build_godwoken_polyjuice", "build_clerkb",
                "clerkb_make", "build_node_module_by_copy",
                "copy_node_module_from_docker", "docker_run"}

Strategies == {"build_godwoken", "build_godwoken_scripts",
               "build_godwoken_polyjuice", "build_clerkb",
               "build_node_module_by_copy"}

packages == kicker_config.packages_info

\* The number of packages, in declared order, the loop has dealt with: those
\* before the loop head, and the one whose strategy is running or has ended.
Visited ==
    IF pc = "build_loop" THEN idx - 1
    ELSE IF pc \in StrategyPcs \cup {"built", "aborted"} THEN idx
    ELSE IF pc = "build_package_ret" /\ result = "Ok" THEN Len(packages)
    ELSE 0

Invocations(i) == {k \in 1..Len(invoked) : invoked[k].idx = i}

\* The commands run for the package at position i, in order.
CmdsOf(i) == SelectSeq(cmds, LAMBDA c : c.idx = i)

\* The strategy invoked for position i has returned to the dispatcher.
Returned(i) ==
    \/ pc = "built" /\ idx = i
    \/ pc = "build_loop" /\ idx > i
    \/ pc = "build_package_ret"

\* C6: at every moment the strategies invoked so far are exactly one for each
\* visited position whose package has build_mode = true and a known name, none
\* for any other position, in increasing position order, each a strategy that
\* depends on the package name only; the process never panics at a package
\* that is disabled or has an unknown name, and build_package returns Ok only
\* when every position has been visited.
C6_DispatchInOrder ==
    /\ \A i \in 1..Len(packages) :
         Cardinality(Invocations(i)) =
           IF i <= Visited /\ packages[i].build_mode
              /\ packages[i].repo_name \in KnownNames
           THEN 1 ELSE 0
    /\ \A k \in 1..Len(invoked) :
         /\ invoked[k].repo_name = packages[invoked[k].idx].repo_name
         /\ invoked[k].fn \in Strategies
         /\ \A l \in 1..Len(invoked) :
              /\ k < l => invoked[k].idx < invoked[l].idx
              /\ invoked[k].repo_name = invoked[l].repo_name
                   => invoked[k].fn = invoked[l].fn
    /\ pc = "aborted" => cur.build_mode /\ cur.repo_name \in KnownNames

\* build_package returned Ok on a configuration whose first package is enabled
\* with an unknown name and whose second is clerkb: one invocation was made.
C6_Witness ==
    /\ pc = "build_package_ret"
    /\ result = "Ok"
    /\ Len(packages) = 2
    /\ packages[1] = PackageInfo("demo", Some("v1"), TRUE)
    /\ Len(invoked) = 1
    /\ invoked[1].idx = 2
    /\ invoked[1].fn = "build_clerkb"

\* A command whose failure the code does not recover from: any but a
\* dependency verification (yarn check) that exited with an error status.
Fatal(c) ==
    /\ c.res # "Ok"
    /\ ~(c.bin = "yarn" /\ Len(c.args) = 4 /\ c.res = "Err")

\* C7: once a command of the strategy of the package at position i has failed
\* fatally, the process has panicked, that command is the last one ever run
\* and no strategy has been invoked for a position after i; the same holds
\* of any panic of a strategy.
C7_FailureAbortsLoop ==
    /\ \A j \in 1..Len(cmds) :
         Fatal(cmds[j])
         => /\ pc = "aborted"
            /\ j = Len(cmds)
            /\ \A k \in 1..Len(invoked) : invoked[k].idx <= cmds[j].idx
    /\ pc = "aborted"
         => /\ invoked # <<>>
            /\ call.idx = idx
            /\ \A k \in 1..Len(invoked) : invoked[k].idx <= idx

\* The make step of godwoken-scripts, first of two enabled known packages,
\* failed: the process has panicked before the second was dispatched.
C7_Witness ==
    /\ pc = "aborted"
    /\ Len(packages) = 2
    /\ idx = 1
    /\ call.fn = "build_godwoken_scripts"
    /\ cmds = <<Cmd("make", <<"-C", "<dir>">>,
                    <<".", "packages", "godwoken-scripts", "c">>, "Err")>>
    /\ packages[2] = PackageInfo("clerkb", Some("v1"), TRUE)

\* The settings request a local (native) build: not a build over docker.
LocalBuildRequested == ~kicker_config.build_godwoken_over_docker

NativeBuildRan(i) ==
    \E j \in 1..Len(cmds) : /\ cmds[j].idx = i
                            /\ cmds[j].bin = "cargo"
                            /\ cmds[j].dir = package_repo_dir("godwoken")

\* C8: for every invocation of build_godwoken, the native build command has
\* been run in the package's directory only if the settings request a local
\* build, it is the next step (or has been run) whenever they do and the
\* directory exists, and the "not implemented" panic happens only when they
\* request a build over docker.
C8_NativeBuildWhenLocal ==
    \A k \in 1..Len(invoked) :
      invoked[k].fn = "build_godwoken"
      => /\ NativeBuildRan(invoked[k].idx) => LocalBuildRequested
         /\ panic_msg = "build godwoken via docker not impl yet!"
              => ~LocalBuildRequested
         /\ (LocalBuildRequested /\ pc # "build_godwoken"
             /\ dir_exists(invoked[k].repo_dir))
              => pc = "godwoken_cargo" \/ NativeBuildRan(invoked[k].idx)

\* C9: of the strategy build_godwoken_scripts, at most two commands are ever
\* run, make first and capsule second, capsule only after make succeeded; the
\* strategy has returned only if both succeeded, and a step that failed is the
\* last one, the process having panicked.
C9_MakeThenCapsule ==
    \A k \in 1..Len(invoked) :
      invoked[k].fn = "build_godwoken_scripts"
      => LET i == invoked[k].idx
             mine == CmdsOf(i)
         IN  /\ Len(mine) <= 2
             /\ Len(mine) >= 1 => mine[1].bin = "make"
             /\ Len(mine) = 2 => mine[2].bin = "capsule" /\ mine[1].res = "Ok"
             /\ Returned(i) => /\ Len(mine) = 2
                               /\ mine[1].res = "Ok"
                               /\ mine[2].res = "Ok"
             /\ \A j \in 1..Len(mine) :
                  mine[j].res # "Ok" => j = Len(mine) /\ pc = "aborted"

\* Both steps of build_godwoken_scripts succeeded and the strategy returned.
C9_Witness ==
    /\ pc = "built"
    /\ call.fn = "build_godwoken_scripts"
    /\ Len(CmdsOf(idx)) = 2
    /\ CmdsOf(idx)[1].bin = "make"
    /\ CmdsOf(idx)[2].bin = "capsule"
    /\ CmdsOf(idx)[2].res = "Ok"

\* The fallback copy of the strategy running at the current position: it has
\* been entered, and it has failed.
FallbackMsgs == {"copy node_module_failed", "index out of bounds",
                 "failed to run docker command"}

FallbackEntered ==
    \/ pc \in {"copy_node_module_from_docker", "docker_run"}
    \/ Len(CmdsOf(idx)) = 2
    \/ pc = "aborted" /\ panic_msg \in FallbackMsgs

FallbackFailed == pc = "aborted" /\ panic_msg \in FallbackMsgs

InNodeStrategy ==
    /\ pc \in {"copy_node_module_from_docker", "docker_run", "built", "aborted"}
    /\ invoked # <<>>
    /\ call.idx = idx
    /\ call.fn = "build_node_module_by_copy"

\* What C10 says short of its last part: the verification command comes
\* first; the fallback copy is entered if and only if the verification exited
\* with an error; the strategy has returned when the verification succeeded
\* or the fallback copy did.
NodeStrategyRecovers ==
    LET mine == CmdsOf(idx)
    IN  /\ Len(mine) \in {1, 2}
        /\ mine[1].bin = "yarn"
        /\ FallbackEntered <=> mine[1].res = "Err"
        /\ mine[1].res = "Ok" => pc = "built"
        /\ (Len(mine) = 2 /\ mine[2].res = "Ok") => pc = "built"
        /\ pc = "built" => mine[Len(mine)].res = "Ok"

\* C10 as stated: the strategy recovers as above, and it has panicked only
\* when the fallback copy step failed.
C10_OnlyFallbackFatal ==
    InNodeStrategy
    => /\ NodeStrategyRecovers
       /\ pc = "aborted" => FallbackFailed

\* C10 amended: the strategy recovers as above, and it has panicked only when
\* the fallback copy step failed or when the verification command could not
\* be started at all (run's own panic, "run command").
C10_FallbackOrSpawnFatal ==
    InNodeStrategy
    => /\ NodeStrategyRecovers
       /\ pc = "aborted"
            => \/ FallbackFailed
               \/ /\ panic_msg = "run command"
                  /\ CmdsOf(idx) = <<Cmd("yarn", <<"--cwd", "<dir>", "check",
                                                   "--verify-tree">>,
                                         make_path(call.repo_dir,
                                                   <<call.repo_name>>),
                                         "panic")>>

\* The verification failed, the fallback copy succeeded, the strategy returned.
C10_Witness ==
    /\ InNodeStrategy
    /\ pc = "built"
    /\ Len(CmdsOf(idx)) = 2
    /\ CmdsOf(idx)[1].res = "Err"
    /\ CmdsOf(idx)[2].bin = "bash"
    /\ CmdsOf(idx)[2].res = "Ok"


\* ---------------------------------------------------------------------------
\* run_in_dir and the working directory.

\* The commands the build strategies run through run_in_dir (lines 128, 146).
RunInDirBins == {"cargo", "capsule"}

LastCmd(c) == c[Len(c)]

\* A step in which run_in_dir ran a command.
RunInDirStep ==
    /\ Len(cmds') = Len(cmds) + 1
    /\ LastCmd(cmds').bin \in RunInDirBins

\* C19: whenever run_in_dir runs a command, the command runs with the target
\* directory as its working directory, and when run_in_dir returns, with Ok
\* or with Err, the working directory of the process is what it was before
\* the call.
C19_RunInDirRestoresCwd ==
    [][RunInDirStep =>
         /\ LastCmd(cmds').at = cwd \o Norm(LastCmd(cmds').dir)
         /\ LastCmd(cmds').res # "panic" => cwd' = cwd]_vars

\* run_in_dir returned Err from a command that ran in another directory, and
\* the process is back where it was.
C19_Witness ==
    /\ \E i \in DOMAIN cmds :
         /\ cmds[i].bin \in RunInDirBins
         /\ cmds[i].res = "Err"
         /\ cmds[i].at # ProjectDir
         /\ cmds[i].at = ProjectDir \o Norm(cmds[i].dir)
    /\ cwd = ProjectDir


\* ---------------------------------------------------------------------------
\* collect_scripts_to_target (lines 185-222).

Parent(path) == SubSeq(path, 1, Len(path) - 1)

Prefixes(path) == {SubSeq(path, 1, n) : n \in 1..Len(path)}

\* fs::create_dir_all(path): fails when a file is in the way.
fs_create_dir_all(ds, f, path) ==
    IF Prefixes(path) \cap DOMAIN f = {}
      THEN [ok |-> TRUE, dirs |-> ds \cup Prefixes(path)]
      ELSE [ok |-> FALSE, dirs |-> ds]

\* (mutant) a copy whose source is missing is skipped without an error.
fs_copy_skip_missing(ds, f, from, to) ==
    IF from \in DOMAIN f /\ to \notin ds /\ Parent(to) \in ds
      THEN [ok |-> TRUE, files |-> (to :> f[from]) @@ f]
      ELSE [ok |-> TRUE, files |-> f]

\* (mutant) a copy onto an existing file appends to it.
fs_copy_append(ds, f, from, to) ==
    IF from \in DOMAIN f /\ to \notin ds /\ Parent(to) \in ds
      THEN [ok |-> TRUE,
            files |-> (to :> IF to \in DOMAIN f THEN f[to] \o f[from]
                                                ELSE f[from]) @@ f]
      ELSE [ok |-> FALSE, files |-> f]

\* fs::copy(from, to): the content of from replaces or creates to; fails when
\* from is not a file, when to is a directory or when to's directory is absent.
fs_copy(ds, f, from, to) ==
    IF from \in DOMAIN f /\ to \notin ds /\ Parent(to) \in ds
      THEN [ok |-> TRUE, files |-> (to :> f[from]) @@ f]
      ELSE [ok |-> FALSE, files |-> f]

\* ScriptsInfo::source_script_path (lines 209-211).
source_script_path(source, repo_dir) == make_path(repo_dir, source)

\* (mutant) the script lands directly in the target root.
target_script_path_flat(source, target_root_dir) ==
    make_path(target_root_dir, <<source[Len(source)]>>)

\* ScriptsInfo::target_script_path (lines 213-222): the first component of
\* source, then its file name, under target_root_dir.
target_script_path(source, target_root_dir) ==
    make_path(target_root_dir, <<source[1], source[Len(source)]>>)

\* The running call of collect_scripts_to_target.
collecting == collects[Len(collects)]

CollectCall(fn, repo_dir, target_dir, scripts_info, next) ==
    [fn |-> fn, repo_dir |-> repo_dir, target_dir |-> target_dir,
     scripts_info |-> scripts_info, next |-> next]

Range(seq) == {seq[i] : i \in DOMAIN seq}

RECURSIVE SetToSeq(_)
\* One listing of the set S.
SetToSeq(S) ==
    IF S = {} THEN <<>>
    ELSE LET x == CHOOSE x \in S : TRUE IN <<x>> \o SetToSeq(S \ {x})

Rotate(seq, k) ==
    [i \in DOMAIN seq |-> seq[((i + k - 1) % Len(seq)) + 1]]

Reverse(seq) == [i \in DOMAIN seq |-> seq[Len(seq) + 1 - i]]

\* scripts_info.values() (line 189): a HashMap yields its values in an
\* arbitrary order.  The orders drawn are the rotations of one listing and
\* their reversals: every script comes first in some order and last in some
\* order, and for up to three scripts these are all orders.
Orders(S) ==
    {Rotate(SetToSeq(S), k) : k \in 0..(Cardinality(S) - 1)}
    \cup {Reverse(Rotate(SetToSeq(S), k)) : k \in 0..(Cardinality(S) - 1)}

\* One pass of the loop body (lines 190-196) for the script v the iteration
\* yields next.
collect_scripts_to_target_loop ==
    /\ pc = "collect_scripts_to_target"
    /\ todo # <<>>
    /\ LET v == Head(todo)
       IN
         LET target_path == Abs(target_script_path(v, collecting.target_dir))
             source_path == Abs(source_script_path(v, collecting.repo_dir))
             made == fs_create_dir_all(dirs, files, Parent(target_path))
             copied == fs_copy(made.dirs, files, source_path, target_path)
         IN  /\ dirs' = made.dirs
             /\ files' = copied.files
             /\ IF ~made.ok THEN Panic("create scripts dir") /\ UNCHANGED todo
                ELSE IF ~copied.ok THEN Panic("copy script") /\ UNCHANGED todo
                ELSE /\ todo' = Tail(todo)
                     /\ UNCHANGED <<pc, panic_msg>>
    /\ UNCHANGED <<kicker_config, disk, idx, runs, envFail, ops, pre, result,
                   cmds, invoked, cwd, started, collects, printed>>

\* The loop is over: back to the caller.
collect_scripts_to_target_return ==
    /\ pc = "collect_scripts_to_target"
    /\ todo = <<>>
    /\ pc' = collecting.next
    /\ UNCHANGED <<kicker_config, disk, idx, runs, envFail, ops, pre,
                   panic_msg, result, cmds, invoked, cwd, dirs, files,
                   started, collects, todo, printed>>

\* A harness for collect_scripts_to_target alone: one call with up to
\* MaxScripts scripts on a file system where some sources are missing, some
\* targets exist already and the target directories may or may not exist.
MaxScripts == 2

ScriptSources ==
    {<<"s">>, <<"a", "s">>, <<"a", "t">>, <<"a", "b", "s">>,
     <<"b", "c", "t">>}

RepoDir == <<".", "repo">>

TargetDir == <<".", "out">>

\* The files with the given paths, each holding its own path as content.
FilesAt(paths) == [q \in paths |-> q]

\* The files with the given paths, all with the content "stale".
StaleAt(paths) == [q \in paths |-> <<"stale">>]

CollectInit ==
    /\ kicker_config = ConfigMissing
    /\ disk = [n \in PackageNames |-> Absent]
    /\ pc = "collect_scripts_to_target"
    /\ idx = 0
    /\ runs = 1
    /\ envFail = FALSE
    /\ ops = <<>>
    /\ pre = disk
    /\ panic_msg = ""
    /\ result = ""
    /\ cmds = <<>>
    /\ invoked = <<>>
    /\ cwd = ProjectDir
    /\ started = <<>>
    /\ printed = <<>>
    /\ \E scripts_info \in SUBSET ScriptSources :
         /\ Cardinality(scripts_info) \in 1..MaxScripts
         /\ todo \in Orders(scripts_info)
         /\ collects = <<CollectCall("harness", RepoDir, TargetDir,
                                     scripts_info, "collected")>>
         /\ \E present \in SUBSET scripts_info, old \in SUBSET scripts_info :
              files = FilesAt({Abs(source_script_path(v, RepoDir)) :
                                 v \in present})
                      @@ StaleAt({Abs(target_script_path(v, TargetDir)) :
                                    v \in old})
         /\ dirs \in {Prefixes(Abs(RepoDir)) ,
                      Prefixes(Abs(RepoDir)) \cup
                        UNION {Prefixes(Parent(Abs(target_script_path(
                                 v, TargetDir)))) : v \in scripts_info}}

CollectNext ==
    \/ collect_scripts_to_target_loop
    \/ collect_scripts_to_target_return

CollectSpec == CollectInit /\ [][CollectNext]_vars


\* ---------------------------------------------------------------------------
\* What collect_scripts_to_target does with each script.

\* Where the claims say a script is read from and written to.
SourceOf(v) == ProjectDir \o Norm(collecting.repo_dir) \o v

DestOf(v) ==
    ProjectDir \o Norm(collecting.target_dir) \o <<v[1], v[Len(v)]>>

\* The loop is done with script v in this step.
Visits(v) ==
    /\ pc = "collect_scripts_to_target"
    /\ todo # <<>>
    /\ v = Head(todo)
    /\ todo' = Tail(todo)

\* C12: for every script whose source path has at least two segments, the
\* step of collect that handles it reads repo_dir/source and leaves a file with
\* exactly that content at target_dir/<first segment>/<file name>, with every
\* missing parent directory created and whatever file was there replaced;
\* no other file changes.
C12_CopiesToFirstSegmentAndName ==
    [][\A v \in Range(todo) :
         (Visits(v) /\ Len(v) >= 2) =>
            /\ SourceOf(v) \in DOMAIN files
            /\ DestOf(v) \in DOMAIN files'
            /\ files'[DestOf(v)] = files[SourceOf(v)]
            /\ Prefixes(Parent(DestOf(v))) \subseteq dirs'
            /\ \A q \in DOMAIN files : q # DestOf(v) => /\ q \in DOMAIN files'
                                                       /\ files'[q] = files[q]
            /\ DOMAIN files' \subseteq DOMAIN files \cup {DestOf(v)}]_vars

\* A call with a three-segment source returned: the copy is at
\* <first segment>/<file name> under the target root.
C12_Witness ==
    /\ pc = "collected"
    /\ <<"a", "b", "s">> \in collecting.scripts_info
    /\ <<"a", "s">> \notin collecting.scripts_info
    /\ DestOf(<<"a", "b", "s">>) = ProjectDir \o <<"out", "a", "s">>
    /\ files[DestOf(<<"a", "b", "s">>)] = SourceOf(<<"a", "b", "s">>)

\* C13: collect never passes over a script whose source does not exist: every
\* script the loop is done with has its source and a copy at its destination,
\* a call with a missing source never returns, and when the loop meets the
\* missing source the call ends with the fatal "copy script".
C13_MissingSourceIsFatal ==
    /\ \A v \in collecting.scripts_info \ Range(todo) :
         /\ SourceOf(v) \in DOMAIN files
         /\ DestOf(v) \in DOMAIN files
         /\ files[DestOf(v)] # <<"stale">>
    /\ pc = "collected" => todo = <<>>
    /\ (\E v \in collecting.scripts_info : SourceOf(v) \notin DOMAIN files)
         => pc # "collected"
    /\ pc = "aborted" =>
         /\ panic_msg = "copy script"
         /\ SourceOf(Head(todo)) \notin DOMAIN files

\* One script was copied and then the loop met a script without a source.
C13_Witness ==
    /\ pc = "aborted"
    /\ panic_msg = "copy script"
    /\ collecting.scripts_info \ Range(todo) # {}
    /\ SourceOf(Head(todo)) \notin DOMAIN files


-----------------------------------------------------------------------------
(* prepare_workspace (lines 381-409) and main (main.rs, lines 5-16) *)

\* create_workspace_folders, line 392.
target_paths ==
    <<<<"workspace", "bin">>, <<"workspace", "deploy", "backend">>,
      <<"workspace", "deploy", "polyjuice-backend">>,
      <<"workspace", "scripts", "release">>>>

\* create_workspace_folders, line 397: what create_dir_all is given for the
\* target path p: p.parent().
folder_to_create(p) == Parent(p)

RECURSIVE create_folders(_, _, _)
\* The loop of create_workspace_folders from the n-th path on, on directories
\* ds: the directories after it, or a failure.
create_folders(ds, f, n) ==
    IF n > Len(target_paths) THEN [ok |-> TRUE, dirs |-> ds]
    ELSE LET made == fs_create_dir_all(ds, f, Abs(folder_to_create(target_paths[n])))
         IN  IF made.ok THEN create_folders(made.dirs, f, n + 1) ELSE made

Start(fn) == started' = Append(started, fn)

\* (mutant) an Err result ends main.
after_phase_gated(res, next) == IF res = "Err" THEN "exit" ELSE next

\* main, lines 7-14: the result res of a phase is bound and printed, and the
\* next statement follows whatever res is.
after_phase(res, next) == next

\* main, line 7: utils::prepare_package().
main_prepare_package ==
    /\ pc = "main"
    /\ pc' = "prepare_package"
    /\ Start("prepare_package")
    /\ UNCHANGED <<kicker_config, disk, idx, runs, envFail, ops, pre,
                   panic_msg, result, cmds, invoked, cwd, dirs, files,
                   collects, todo, printed>>

\* main, lines 8-11: the result of prepare_package is printed and logged,
\* then utils::build_package().
main_build_package ==
    /\ pc = "prepare_package_ret"
    /\ printed' = Append(printed, <<"prepare_package", result>>)
    /\ pc' = after_phase(result, "build_package")
    /\ IF pc' = "build_package" THEN Start("build_package")
                                ELSE UNCHANGED started
    /\ UNCHANGED <<kicker_config, disk, idx, runs, envFail, ops, pre,
                   panic_msg, result, cmds, invoked, cwd, dirs, files,
                   collects, todo>>

\* main, lines 12-14: the result of build_package is printed, then
\* utils::prepare_workspace().
main_prepare_workspace ==
    /\ pc = "build_package_ret"
    /\ printed' = Append(printed, <<"build_package", result>>)
    /\ pc' = after_phase(result, "create_workspace_folders")
    /\ IF pc' = "create_workspace_folders" THEN Start("prepare_workspace")
                                           ELSE UNCHANGED started
    /\ UNCHANGED <<kicker_config, disk, idx, runs, envFail, ops, pre,
                   panic_msg, result, cmds, invoked, cwd, dirs, files,
                   collects, todo>>

\* main, line 15: prepare_workspace returned (); main prints it and ends.
main_exit ==
    /\ pc = "prepare_workspace_ret"
    /\ printed' = Append(printed, <<"prepare_workspace", "()">>)
    /\ pc' = "exit"
    /\ UNCHANGED <<kicker_config, disk, idx, runs, envFail, ops, pre,
                   panic_msg, result, cmds, invoked, cwd, dirs, files,
                   started, collects, todo>>

\* create_workspace_folders, lines 391-399.
create_workspace_folders ==
    /\ pc = "create_workspace_folders"
    /\ Start("create_workspace_folders")
    /\ LET made == create_folders(dirs, files, 1)
       IN  /\ dirs' = made.dirs
           /\ IF made.ok
                THEN pc' = "provide_basic_files" /\ UNCHANGED panic_msg
                ELSE Panic("create scripts dir")
    /\ UNCHANGED <<kicker_config, disk, idx, runs, envFail, ops, pre, result,
                   cmds, invoked, cwd, files, collects, todo, printed>>

private_key == <<".", "config", "private_key">>

\* provide_basic_files, line 387: the private key is copied.
provide_basic_files_copy ==
    /\ pc = "provide_basic_files"
    /\ Start("provide_basic_files")
    /\ LET copied == fs_copy(dirs, files, Abs(private_key),
                             Abs(<<".", "workspace", "deploy", "private_key">>))
       IN  /\ files' = copied.files
           /\ IF copied.ok
                THEN pc' = "init_config_json" /\ UNCHANGED panic_msg
                ELSE Panic("copy private key script")
    /\ UNCHANGED <<kicker_config, disk, idx, runs, envFail, ops, pre, result,
                   cmds, invoked, cwd, dirs, collects, todo, printed>>

\* provide_basic_files, line 388: run_one_line_cmd (lines 510-528) and its
\* expect.  What the script writes is outside the files the tool handles.
provide_basic_files_init ==
    /\ pc = "init_config_json"
    /\ \E e \in Outcomes :
         LET res == run(e, TRUE)
         IN  /\ cmds' = Append(cmds,
                          Cmd("bash",
                              <<"-c", "sh ./docker/layer2/init_config_json.sh">>,
                              <<>>, res))
             /\ envFail' = (envFail \/ res # "Ok")
             /\ pc' = expect(res, "provide_godwoken_bin")
             /\ panic_msg' =
                  IF res = "panic" THEN "failed to run docker command"
                  ELSE IF res = "Err" THEN "init godwoken config json"
                  ELSE panic_msg
    /\ UNCHANGED <<kicker_config, disk, idx, runs, ops, pre, result, invoked,
                   cwd, dirs, files, started, collects, todo, printed>>

\* provide_godwoken_bin, lines 381-382: where the two binaries are copied to.
godwoken_dest == <<"workspace", "bin", "godwoken">>

gw_tools_dest == <<"workspace", "bin", "godwoken">>

\* provide_godwoken_bin, lines 380-383.
provide_godwoken_bin ==
    /\ pc = "provide_godwoken_bin"
    /\ Start("provide_godwoken_bin")
    /\ LET first == fs_copy(dirs, files, Abs(godwoken_bin), Abs(godwoken_dest))
           second == fs_copy(dirs, first.files, Abs(gw_tools_bin),
                             Abs(gw_tools_dest))
       IN  /\ files' = second.files
           /\ IF ~first.ok THEN Panic("copy godwoken bin")
              ELSE IF ~second.ok THEN Panic("copy gw-tools bin")
              ELSE pc' = "provide_godwoken_scripts" /\ UNCHANGED panic_msg
    /\ UNCHANGED <<kicker_config, disk, idx, runs, envFail, ops, pre, result,
                   cmds, invoked, cwd, dirs, collects, todo, printed>>

\* provide_godwoken_scripts, lines 294-311: backend_scripts.
godwoken_backend_scripts ==
    { <<"godwoken-scripts", "c", "build", n>> :
        n \in {"sudt-generator", "sudt-validator", "meta-contract-generator",
               "meta-contract-validator"} }

\* provide_godwoken_scripts, lines 226-276: scripts.
godwoken_scripts ==
    { <<"godwoken-scripts", "build", "release", n>> :
        n \in {"always-success", "custodian-lock", "deposit-lock",
               "withdrawal-lock", "challenge-lock", "stake-lock",
               "tron-account-lock", "state-validator", "eth-account-lock"} }
    \cup godwoken_backend_scripts

\* provide_polyjuice_scripts, lines 331-334.
polyjuice_scripts ==
    { <<"godwoken-polyjuice", "build", n>> : n \in {"generator", "validator"} }

\* provide_clerkb_scripts, lines 360-363.
clerkb_scripts ==
    { <<"clerkb", "build", "debug", n>> : n \in {"poa", "state"} }

release_dir == <<".", "workspace", "scripts", "release">>

\* (mutant) the second call writes to the release directory again.
backend_dir_release(fn) == release_dir

\* The target of the second collect call of a provide_* function (lines 325,
\* 354).
backend_dir(fn) ==
    IF fn = "provide_godwoken_scripts"
      THEN <<".", "workspace", "deploy", "backend">>
      ELSE <<".", "workspace", "deploy", "polyjuice-backend">>

\* A provide_* function calls collect_scripts_to_target.
Collect(at, fn, repo_dir, target_dir, scripts_info, next) ==
    /\ pc = at
    /\ pc' = "collect_scripts_to_target"
    /\ collects' = Append(collects,
                          CollectCall(fn, repo_dir, target_dir, scripts_info,
                                      next))
    /\ todo' \in Orders(scripts_info)
    /\ UNCHANGED <<kicker_config, disk, idx, runs, envFail, ops, pre,
                   panic_msg, result, cmds, invoked, cwd, dirs, files,
                   printed>>

\* provide_godwoken_scripts, lines 289-291: the release set.
provide_godwoken_scripts_release ==
    /\ Collect("provide_godwoken_scripts", "provide_godwoken_scripts",
               <<".", "packages", "godwoken">>, release_dir, godwoken_scripts,
               "provide_godwoken_scripts_backend")
    /\ Start("provide_godwoken_scripts")

\* provide_godwoken_scripts, lines 293-327: the backend set.
provide_godwoken_scripts_backend ==
    /\ Collect("provide_godwoken_scripts_backend", "provide_godwoken_scripts",
               <<".", "packages", "godwoken">>,
               backend_dir("provide_godwoken_scripts"),
               godwoken_backend_scripts, "provide_polyjuice_scripts")
    /\ UNCHANGED started

\* provide_polyjuice_scripts, lines 347-349: the release set.
provide_polyjuice_scripts_release ==
    /\ Collect("provide_polyjuice_scripts", "provide_polyjuice_scripts",
               <<".", "packages", "godwoken-polyjuice">>, release_dir,
               polyjuice_scripts, "provide_polyjuice_scripts_backend")
    /\ Start("provide_polyjuice_scripts")

\* provide_polyjuice_scripts, lines 351-356: the backend set.
provide_polyjuice_scripts_backend ==
    /\ Collect("provide_polyjuice_scripts_backend", "provide_polyjuice_scripts",
               <<".", "packages", "godwoken-polyjuice">>,
               backend_dir("provide_polyjuice_scripts"),
               polyjuice_scripts, "provide_clerkb_scripts")
    /\ UNCHANGED started

\* provide_clerkb_scripts, lines 359-379: the release set, and nothing else.
provide_clerkb_scripts ==
    /\ Collect("provide_clerkb_scripts", "provide_clerkb_scripts",
               <<".", "packages", "clerkb">>, release_dir, clerkb_scripts,
               "prepare_workspace_ret")
    /\ Start("provide_clerkb_scripts")


\* The kicker-config.toml of Config::default (lines 39-106), with build_mode
\* switched on for the packages in enabled and the system flag set to
\* over_docker.  Every default repo_url carries a fragment.
default_packages ==
    <<"godwoken", "godwoken-polyman", "godwoken-web3", "godwoken-scripts",
      "godwoken-polyjuice", "clerkb">>

DefaultConfig(enabled, over_docker) ==
    [readable |-> TRUE,
     packages_info |-> [i \in DOMAIN default_packages |->
                          PackageInfo(default_packages[i], Some("v1"),
                                      default_packages[i] \in enabled)],
     images_info |-> 3,
     build_godwoken_over_docker |-> over_docker]

\* No configuration file; the default one; one with a single package switched
\* on; and one that also sets build_godwoken_over_docker.
MainConfigs ==
    {ConfigMissing, DefaultConfig({}, FALSE),
     DefaultConfig({"godwoken"}, TRUE)}
    \cup {DefaultConfig({n}, FALSE) : n \in KnownNames}

\* Every file prepare_workspace reads from a package directory.
PackageFiles ==
    {godwoken_bin, gw_tools_bin}
    \cup {Norm(source_script_path(v, <<".", "packages", "godwoken">>)) :
            v \in godwoken_scripts}
    \cup {Norm(source_script_path(v, <<".", "packages", "godwoken-polyjuice">>)) :
            v \in polyjuice_scripts}
    \cup {Norm(source_script_path(v, <<".", "packages", "clerkb">>)) :
            v \in clerkb_scripts}

\* The tool is started in a project directory whose package directories are
\* all absent or all built working copies (at the pinned or at another
\* revision), and whose workspace is absent or has its bin directory.
MainInit ==
    /\ kicker_config \in MainConfigs
    /\ \E d \in {Absent, Repo("v1", FALSE), Repo("main", TRUE)} :
         /\ disk = [n \in PackageNames |-> d]
         /\ files = FilesAt({ProjectDir \o Norm(private_key)}
                            \cup IF d.exists
                                   THEN {ProjectDir \o q : q \in PackageFiles}
                                   ELSE {})
         /\ dirs \in {Prefixes(ProjectDir \o <<"config">>),
                      Prefixes(ProjectDir \o <<"config">>)
                        \cup Prefixes(ProjectDir \o <<"workspace", "bin">>)}
    /\ pc = "main"
    /\ idx = 1
    /\ runs = 1
    /\ envFail = FALSE
    /\ ops = <<>>
    /\ pre = disk
    /\ panic_msg = ""
    /\ result = ""
    /\ cmds = <<>>
    /\ invoked = <<>>
    /\ cwd = ProjectDir
    /\ started = <<>>
    /\ collects = <<>>
    /\ todo = <<>>
    /\ printed = <<>>

\* The tool has ended normally and is started again in the same project
\* directory, on what the run before left there.
main_again ==
    /\ pc = "exit"
    /\ runs < MaxRuns
    /\ runs' = runs + 1
    /\ pc' = "main"
    /\ idx' = 1
    /\ ops' = <<>>
    /\ pre' = disk
    /\ result' = ""
    /\ cmds' = <<>>
    /\ invoked' = <<>>
    /\ started' = <<>>
    /\ collects' = <<>>
    /\ printed' = <<>>
    /\ UNCHANGED <<kicker_config, disk, envFail, panic_msg, cwd, dirs, files,
                   todo>>

MainNext ==
    \/ main_prepare_package
    \/ prepare_package_read
    \/ prepare_package_loop
    \/ run_pull_code_begin
    \/ run_pull_code_checkout_first
    \/ run_pull_code_remove
    \/ run_pull_code_create
    \/ run_pull_code_clone
    \/ run_pull_code_checkout_second
    \/ run_pull_code_return
    \/ main_build_package
    \/ build_package_read
    \/ build_package_loop
    \/ build_strategy_return
    \/ build_godwoken_begin
    \/ build_godwoken_cargo
    \/ build_godwoken_scripts_make
    \/ build_godwoken_scripts_capsule
    \/ build_godwoken_polyjuice_make
    \/ build_clerkb_yarn
    \/ build_clerkb_make
    \/ build_node_module_by_copy_verify
    \/ copy_node_module_from_docker_image
    \/ copy_node_module_from_docker_run
    \/ main_prepare_workspace
    \/ create_workspace_folders
    \/ provide_basic_files_copy
    \/ provide_basic_files_init
    \/ provide_godwoken_bin
    \/ provide_godwoken_scripts_release
    \/ provide_godwoken_scripts_backend
    \/ provide_polyjuice_scripts_release
    \/ provide_polyjuice_scripts_backend
    \/ provide_clerkb_scripts
    \/ collect_scripts_to_target_loop
    \/ collect_scripts_to_target_return
    \/ main_exit
    \/ main_again

MainSpec == MainInit /\ [][MainNext]_vars


-----------------------------------------------------------------------------
(* Properties of the whole run (checked under MainSpec) *)

Started(fn) == fn \in Range(started)

\* C14: once create_workspace_folders has run, the four directories
\* workspace/bin, workspace/deploy/backend, workspace/deploy/polyjuice-backend
\* and workspace/scripts/release all exist, whatever the workspace was before.
C14_FourFoldersExist ==
    Started("create_workspace_folders") =>
       \A n \in DOMAIN target_paths : ProjectDir \o target_paths[n] \in dirs


\* C20: once provide_godwoken_bin has succeeded, the godwoken binary and the
\* gw-tools binary are each in workspace/bin at a destination of their own,
\* each with the content of its source: the two copies do not share a target.
C20_BothBinariesProvided ==
    (Started("provide_godwoken_bin") /\ pc = "provide_godwoken_scripts") =>
       /\ godwoken_dest # gw_tools_dest
       /\ ProjectDir \o godwoken_dest \in DOMAIN files
       /\ ProjectDir \o gw_tools_dest \in DOMAIN files
       /\ files[ProjectDir \o godwoken_dest] = files[ProjectDir \o godwoken_bin]
       /\ files[ProjectDir \o gw_tools_dest] = files[ProjectDir \o gw_tools_bin]


\* The three script families, by the function that provides them.
Families ==
    {"provide_godwoken_scripts", "provide_polyjuice_scripts",
     "provide_clerkb_scripts"}

CallsOf(fn) == {i \in DOMAIN collects : collects[i].fn = fn}

TargetsOf(fn) == {collects[i].target_dir : i \in CallsOf(fn)}

\* Every script of call i is at its destination with its source's content.
Written(i) ==
    \A v \in collects[i].scripts_info :
       LET dest == ProjectDir \o Norm(collects[i].target_dir)
                     \o <<v[1], v[Len(v)]>>
           from == ProjectDir \o Norm(collects[i].repo_dir) \o v
       IN  dest \in DOMAIN files /\ files[dest] = files[from]

\* C17 as stated: in a run that ends normally every family has written two
\* destination sets from one source tree, the shared release set and a
\* backend set of its own.
C17_EveryFamilyTwoSets ==
    pc = "exit" =>
       \A fn \in Families :
          \E i, j \in CallsOf(fn) :
             /\ collects[i].target_dir = release_dir
             /\ collects[j].target_dir # release_dir
             /\ collects[i].repo_dir = collects[j].repo_dir
             /\ \A g \in Families \ {fn} :
                  collects[j].target_dir \notin TargetsOf(g)

\* C17: in a run that ends normally the collector was called for each of the
\* three families and every family wrote the shared release set; the godwoken
\* and the polyjuice family also wrote a backend set of their own, from the
\* same source tree and with scripts of their release set; the clerkb family
\* wrote the release set only.
C17_ReleaseSetAndTwoBackends ==
    pc = "exit" =>
       /\ \A fn \in Families :
            /\ release_dir \in TargetsOf(fn)
            /\ \A i, j \in CallsOf(fn) :
                 /\ collects[i].repo_dir = collects[j].repo_dir
                 /\ collects[j].target_dir # release_dir =>
                      /\ collects[i].target_dir = release_dir =>
                           collects[j].scripts_info
                             \subseteq collects[i].scripts_info
                      /\ \A g \in Families \ {fn} :
                           collects[j].target_dir \notin TargetsOf(g)
       /\ Cardinality(TargetsOf("provide_godwoken_scripts")) = 2
       /\ Cardinality(TargetsOf("provide_polyjuice_scripts")) = 2
       /\ TargetsOf("provide_clerkb_scripts") = {release_dir}
       /\ \A i \in DOMAIN collects : Written(i)

\* A run ended normally with five collect calls made and a backend script of
\* each of the two backend sets in place.
C17_Witness ==
    /\ pc = "exit"
    /\ Len(collects) = 5
    /\ ProjectDir \o <<"workspace", "deploy", "backend", "godwoken-scripts",
                       "sudt-generator">> \in DOMAIN files
    /\ ProjectDir \o <<"workspace", "deploy", "polyjuice-backend",
                       "godwoken-polyjuice", "validator">> \in DOMAIN files
    /\ ProjectDir \o <<"workspace", "scripts", "release", "clerkb", "poa">>
         \in DOMAIN files


Phases == <<"prepare_package", "build_package", "prepare_workspace">>

\* The phases started in this run, in the order they were started.
PhasesStarted == SelectSeq(started, LAMBDA fn : fn \in Range(Phases))

\* The process has ended: main returned or a panic unwound it.
Ended == pc \in {"exit", "aborted"}

\* C15 as stated: however a phase ends, failure included, the next phase
\* still starts, so no run ends before the last phase was started.
C15_NextPhaseAlwaysStarts ==
    Ended => Started("prepare_workspace")

\* C15: the phases start in the order sync, build, assemble; whatever
\* prepare_package or build_package returns, Ok or Err, main prints it and
\* starts the next phase, so a run in which no phase panics starts all three;
\* a run ends before its last phase only by a panic.
C15_ReturnedPhaseNeverGates ==
    /\ IsPrefix(PhasesStarted, Phases)
    /\ \A i \in DOMAIN printed :
         /\ printed[i][1] = Phases[i]
         /\ i < Len(Phases) => Started(Phases[i + 1])
    /\ pc = "prepare_package_ret" => ENABLED main_build_package
    /\ pc = "build_package_ret" => ENABLED main_prepare_workspace
    /\ pc = "exit" => PhasesStarted = Phases /\ Len(printed) = 3
    /\ (Ended /\ ~Started("prepare_workspace")) => pc = "aborted"

\* Both sync and build returned Err and the assemble phase has started.
C15_Witness ==
    /\ Len(printed) >= 2
    /\ printed[1] = <<"prepare_package", "Err">>
    /\ printed[2] = <<"build_package", "Err">>
    /\ Started("prepare_workspace")
    /\ Started("provide_basic_files")


\* The dependency verification of build_node_module_by_copy (line 164).
IsVerification(c) == c.bin = "yarn" /\ "check" \in Range(c.args)

\* C16 as stated: every error but a verification mismatch halts the run, a
\* configuration file that cannot be read included: after prepare_package
\* returned that error no later step is executed.
C16_EveryErrorHalts ==
    \A i \in DOMAIN printed :
       printed[i][2] = "Err" => Len(started) <= i

\* Nothing has been executed after a failure: the process is dead and the
\* failing command is the last one run.
HaltedAt(i) == pc = "aborted" /\ i = Len(cmds)

\* C16 (state part): a failed sync step other than the first checkout of an
\* existing working copy, a failed command other than the dependency
\* verification, a missing artifact and the unimplemented build path all panic, and the panic halts the run at once; a configuration that
\* cannot be read is not fatal: the phase returns Err, main prints it and the
\* later phases still run; nothing else makes a phase return Err.
C16_Halting ==
    /\ panic_msg # "" <=> pc = "aborted"
    /\ \A i \in DOMAIN cmds :
         (cmds[i].res # "Ok" /\ ~IsVerification(cmds[i])) => HaltedAt(i)
    /\ \A i \in DOMAIN cmds :
         (cmds[i].res = "panic") => HaltedAt(i)
    /\ \A i \in DOMAIN ops :
         (ops[i].res # "Ok" /\ ~(i = 1 /\ ops[i].res = "Err"))
           => pc = "aborted" /\ i = Len(ops)
    /\ (pc = "collect_scripts_to_target" /\ todo # <<>>
          /\ SourceOf(Head(todo)) \notin DOMAIN files)
         => ~ENABLED collect_scripts_to_target_return
    /\ \A i \in DOMAIN printed :
         printed[i][2] = "Err" <=> (i <= 2 /\ ~kicker_config.readable)
    /\ (~kicker_config.readable /\ Len(printed) >= 2)
         => Started("prepare_workspace")

\* C16: the state part, and no step is ever taken once a panic has occurred.
C16_PanicsHaltConfigErrorsDoNot ==
    []C16_Halting /\ [][pc # "aborted"]_vars

\* One run met the unimplemented build path and halted inside build_package;
\* it had synchronized godwoken before.
C16_Witness ==
    /\ pc = "aborted"
    /\ panic_msg = "build godwoken via docker not impl yet!"
    /\ started = <<"prepare_package", "build_package">>
    /\ printed = <<<<"prepare_package", "Ok">>>>


\* No entry of the configuration switches package n on.
Disabled(n) ==
    \A i \in DOMAIN kicker_config.packages_info :
       kicker_config.packages_info[i].repo_name = n
         => ~kicker_config.packages_info[i].build_mode

\* The package whose directory under packages/ the path dir is in ("" if
\* none).
PackageOf(dir) ==
    IF Len(Norm(dir)) >= 2 /\ Norm(dir)[1] = "packages" THEN Norm(dir)[2]
    ELSE ""

FilesOf(f, n) ==
    {q \in DOMAIN f : IsUnder(q, ProjectDir \o <<"packages", n>>)}

\* C11: for a package whose build_mode is off, no step of the run changes,
\* creates or removes its directory under packages/ or a file in it, no git
\* operation is run on it, no build strategy is invoked for it and no command
\* is run in its directory.
C11_DisabledPackageUntouched ==
    [][\A n \in PackageNames :
         Disabled(n) =>
            /\ disk'[n] = disk[n]
            /\ FilesOf(files', n) = FilesOf(files, n)
            /\ \A q \in FilesOf(files, n) : files'[q] = files[q]
            /\ (Len(ops') > Len(ops)) => cur.repo_name # n
            /\ (Len(invoked') > Len(invoked))
                 => invoked'[Len(invoked')].repo_name # n
            /\ (Len(cmds') > Len(cmds))
                 => PackageOf(cmds'[Len(cmds')].dir) # n]_vars

\* The run has synchronized and built clerkb, the one package switched on,
\* next to five packages that are switched off and present.
C11_Witness ==
    /\ pc = "build_package_ret"
    /\ result = "Ok"
    /\ Len(invoked) = 1
    /\ invoked[1].repo_name = "clerkb"
    /\ Len(ops) >= 1
    /\ ~Disabled("clerkb")
    /\ Disabled("godwoken") /\ disk["godwoken"].exists
    /\ Len(cmds) = 2 /\ PackageOf(cmds[1].dir) = "clerkb"


\* The workspace tree: its directories and its files with their content.
WorkspaceTree ==
    LET under(q) == IsUnder(q, ProjectDir \o <<"workspace">>)
    IN  [dirs |-> {q \in dirs : under(q)},
         files |-> [q \in {q \in DOMAIN files : under(q)} |-> files[q]]]

\* C18: when the tool is run again after a run that ended normally with no
\* error (the configuration was read and nothing panicked), on the same
\* configuration and with every external command
\* succeeding as before, the second run does not fail and no step of it
\* changes a directory or a file of the workspace: it ends normally on the
\* identical workspace tree.
C18_SecondRunIdentical ==
    [][(runs >= 2 /\ kicker_config.readable /\ ~envFail') =>
         /\ pc' # "aborted"
         /\ WorkspaceTree' = WorkspaceTree
         /\ \A i \in DOMAIN printed' : printed'[i][2] # "Err"]_vars

\* The second run, which synchronized and built godwoken again, has ended
\* normally.
C18_Witness ==
    /\ runs = 2
    /\ pc = "exit"
    /\ ~envFail
    /\ kicker_config = DefaultConfig({"godwoken"}, TRUE)
    /\ Len(cmds) = 2
    /\ Len(collects) = 5
    /\ ProjectDir \o <<"workspace", "bin", "godwoken">> \in DOMAIN files


-----------------------------------------------------------------------------
(* The directory a build strategy works in (checked under BuildSpec) *)

\* The directory sync populates for the package called name: run_pull_code,
\* line 458, make_path(repo_dir, vec![repo_name]) with repo_dir "packages/".
SyncedDir(name) == <<"packages", name>>

\* C21: every command a build strategy runs for a package works in the
\* directory packages/<name> that sync populates for that package (the make of
\* godwoken-scripts' C sources in its subdirectory c), for each of the six
\* arms of build_package.
C21_BuildsInSyncedDir ==
    \A i \in DOMAIN cmds :
       LET name == kicker_config.packages_info[cmds[i].idx].repo_name
       IN  \/ Norm(cmds[i].dir) = SyncedDir(name)
           \/ /\ name = "godwoken-scripts"
              /\ Norm(cmds[i].dir) = SyncedDir(name) \o <<"c">>

====
